---- MODULE Spec2Model ----
(***************************************************************************)
(* Schnorr signatures over BabyJubJub (crates/schnorr-core).               *)
(*                                                                         *)
(* The curve is a*x^2 + y^2 = 1 + d*x^2*y^2 over F_p with a = 168700 and   *)
(* d = 168696, as in curve.rs.  The 254-bit base field and the 251-bit     *)
(* subgroup order do not fit the model checker's integers, so the model    *)
(* works over a small field with the same shape: p = 409 is a prime with   *)
(* p = 1 (mod 4), a is a square and d a non-square mod p, the curve has    *)
(* 8*n points with n = 47 prime (cofactor 8), and the generator has order  *)
(* n.  Bit widths shrink alike: 32-byte encodings become 2 bytes, the      *)
(* 254-bit truncation becomes bitlen(p) = 9 bits and the 253-bit one       *)
(* bitlen(n)+2 = 8 bits.  The external hashes (Poseidon, SHA-256, SHA-512) *)
(* are deterministic stand-ins with the same arity and output domain.      *)
(***************************************************************************)
EXTENDS Integers, Sequences, FiniteSets, TLC

\* ------------------------------------------------------------------------
\* State
\* ------------------------------------------------------------------------
VARIABLES
    pc,        \* position of the caller: what has been called so far
    msg,       \* the message bytes
    draws,     \* number of scalars drawn from OsRng so far
    origin,    \* how kp was made: "generate" or "from_private_key"
    kp,        \* the KeyPair in use
    kp2,       \* a second, independently generated KeyPair
    sig1,      \* the Signature returned by the first sign call
    tampered,  \* which field of sig1 the caller overwrote, "none" if none
    sig2,      \* the Signature returned by the second sign call
    outcome,   \* the VerifyResult, or "Panic" when verify aborted
    pt1,       \* curve arithmetic: the point operated on
    out        \* curve arithmetic: the operation applied and its results

vars == <<pc, msg, draws, origin, kp, kp2, sig1, tampered, sig2, outcome, pt1, out>>

protoVars == <<pc, msg, draws, origin, kp, kp2, sig1, tampered, sig2, outcome>>

\* ------------------------------------------------------------------------
\* Constants of curve.rs
\* ------------------------------------------------------------------------
A_COEFF == 168700

D_COEFF == 168696

\* modulus of Fq = ark_bn254::Fr (scaled)
P == 409

\* modulus of Fr = ark_ed_on_bn254::Fr, the subgroup order (scaled)
N == 47

\* decimal digits of the generator's coordinates (scaled Base8)
BASE8_X == <<8>>

BASE8_Y == <<1, 8, 1>>

\* decimal digits of the subgroup order n
BJJ_ORDER == <<4, 7>>

\* into_bigint().to_bytes_le() yields this many bytes (32 in the source)
NumBytes == 2

\* bits.truncate(253) in BjjScalar::to_bits_le
ScalarBits == 8

\* bits.truncate(254) in bn254_to_bits_le
FieldBits == 9

\* ------------------------------------------------------------------------
\* Field arithmetic (ark_ff): values are canonical integers in 0..modulus-1
\* ------------------------------------------------------------------------
Fq == 0 .. (P - 1)

Fr == 0 .. (N - 1)

FqAdd(x, y) == (x + y) % P

FqSub(x, y) == (x + P - y) % P

FqMul(x, y) == (x * y) % P

FrSub(x, y) == (x + N - y) % N

FrMul(x, y) == (x * y) % N

FrAdd(x, y) == (x + y) % N

RECURSIVE FqPow(_, _)
FqPow(x, k) ==
    IF k = 0 THEN 1
    ELSE IF k % 2 = 1 THEN FqMul(x, FqPow(FqMul(x, x), k \div 2))
    ELSE FqPow(FqMul(x, x), k \div 2)

\* Field::inverse(): None for zero, else the multiplicative inverse
None == -1

FqInverseTable == [v \in Fq |-> IF v = 0 THEN None ELSE FqPow(v, P - 2)]

FqInverse(v) == FqInverseTable[v]

\* ------------------------------------------------------------------------
\* Byte and bit encodings
\* ------------------------------------------------------------------------
RECURSIVE Pow(_, _)
Pow(b, k) == IF k = 0 THEN 1 ELSE b * Pow(b, k - 1)

\* BigInteger::to_bytes_le: fixed-width little-endian bytes
to_bytes_le(v) == [i \in 1 .. NumBytes |-> (v \div Pow(256, i - 1)) % 256]

\* BigUint::to_bytes_le: minimal little-endian bytes (one zero byte for 0)
RECURSIVE biguint_to_bytes_le(_)
biguint_to_bytes_le(v) ==
    IF v < 256 THEN <<v>> ELSE <<v % 256>> \o biguint_to_bytes_le(v \div 256)

RECURSIVE le_bytes_value(_)
le_bytes_value(bytes) ==
    IF bytes = <<>> THEN 0
    ELSE Head(bytes) + 256 * le_bytes_value(Tail(bytes))

\* PrimeField::from_le_bytes_mod_order
from_le_bytes_mod_order(bytes, modulus) == le_bytes_value(bytes) % modulus

\* slip: the bits of each byte pushed most-significant first
bytes_to_bits_msb_first(bytes) ==
    [j \in 1 .. (8 * Len(bytes)) |->
        ((bytes[((j - 1) \div 8) + 1] \div Pow(2, 7 - ((j - 1) % 8))) % 2) = 1]

\* the loops "for byte in &bytes { for i in 0..8 { bits.push((byte >> i) & 1 == 1) } }"
bytes_to_bits(bytes) ==
    [j \in 1 .. (8 * Len(bytes)) |->
        ((bytes[((j - 1) \div 8) + 1] \div Pow(2, (j - 1) % 8)) % 2) = 1]

truncate(bits, len) == IF Len(bits) > len THEN SubSeq(bits, 1, len) ELSE bits

\* slip: the scalar bits cut three bits short of ScalarBits
to_bits_le_short(scalar) == truncate(bytes_to_bits(to_bytes_le(scalar)), ScalarBits - 3)

\* BjjScalar::to_bits_le
to_bits_le(scalar) == truncate(bytes_to_bits(to_bytes_le(scalar)), ScalarBits)

\* slip: the challenge bits cut at the scalar length instead of the field length
bn254_to_bits_le_scalar_len(f) == truncate(bytes_to_bits(to_bytes_le(f)), ScalarBits)

\* bn254_to_bits_le
bn254_to_bits_le(f) == truncate(bytes_to_bits(to_bytes_le(f)), FieldBits)

\* slip: the challenge bytes read in big-endian order before the reduction
bn254_to_bjj_scalar_be(e) ==
    from_le_bytes_mod_order([i \in 1 .. NumBytes |-> to_bytes_le(e)[NumBytes + 1 - i]], N)

\* bn254_to_bjj_scalar
bn254_to_bjj_scalar(e) == from_le_bytes_mod_order(to_bytes_le(e), N)

\* slip: the decimal digits read least-significant first
RECURSIVE dec_value_reversed(_)
dec_value_reversed(digits) ==
    IF digits = <<>> THEN 0
    ELSE Head(digits) + 10 * dec_value_reversed(Tail(digits))

RECURSIVE dec_value(_)
dec_value(digits) ==
    IF digits = <<>> THEN 0
    ELSE 10 * dec_value(SubSeq(digits, 1, Len(digits) - 1)) + digits[Len(digits)]

\* field_from_dec_str::<F>
field_from_dec_str(s, modulus) ==
    from_le_bytes_mod_order(biguint_to_bytes_le(dec_value(s)), modulus)

\* ------------------------------------------------------------------------
\* BjjPoint
\* ------------------------------------------------------------------------
\* the panic of expect("degenerate addition"); it aborts the whole call
DegenerateAddition == [x |-> None, y |-> None]

identity == [x |-> 0, y |-> 1]

generator == [x |-> field_from_dec_str(BASE8_X, P), y |-> field_from_dec_str(BASE8_Y, P)]

is_on_curve(pt) ==
    LET a == A_COEFF % P
        d == D_COEFF % P
        x2 == FqMul(pt.x, pt.x)
        y2 == FqMul(pt.y, pt.y)
        lhs == FqAdd(FqMul(a, x2), y2)
        rhs == FqAdd(1, FqMul(FqMul(d, x2), y2))
    IN  lhs = rhs

is_zero(pt) == pt.x = 0 /\ pt.y = 1

\* the two denominators add inverts: <<1 + d*x1*x2*y1*y2, 1 - d*x1*x2*y1*y2>>
add_denominators(self, other) ==
    LET d == D_COEFF % P
        x1x2 == FqMul(self.x, other.x)
        y1y2 == FqMul(self.y, other.y)
        dx1x2y1y2 == FqMul(FqMul(d, x1x2), y1y2)
    IN  <<FqAdd(1, dx1x2y1y2), FqSub(1, dx1x2y1y2)>>

\* slip: the coefficient a used where the formula has d
add_coeff_slip(self, other) ==
    IF self = DegenerateAddition \/ other = DegenerateAddition
    THEN DegenerateAddition
    ELSE
    LET a == A_COEFF % P
        d == A_COEFF % P
        x1y2 == FqMul(self.x, other.y)
        y1x2 == FqMul(self.y, other.x)
        x1x2 == FqMul(self.x, other.x)
        y1y2 == FqMul(self.y, other.y)
        dx1x2y1y2 == FqMul(FqMul(d, x1x2), y1y2)
        x3_num == FqAdd(x1y2, y1x2)
        x3_den == FqAdd(1, dx1x2y1y2)
        y3_num == FqSub(y1y2, FqMul(a, x1x2))
        y3_den == FqSub(1, dx1x2y1y2)
    IN  IF FqInverse(x3_den) = None \/ FqInverse(y3_den) = None
        THEN DegenerateAddition
        ELSE [x |-> FqMul(x3_num, FqInverse(x3_den)),
              y |-> FqMul(y3_num, FqInverse(y3_den))]

\* slip: y3's numerator with the sign of a*x1*x2 flipped
add_sign_slip(self, other) ==
    IF self = DegenerateAddition \/ other = DegenerateAddition
    THEN DegenerateAddition
    ELSE
    LET a == A_COEFF % P
        d == D_COEFF % P
        x1y2 == FqMul(self.x, other.y)
        y1x2 == FqMul(self.y, other.x)
        x1x2 == FqMul(self.x, other.x)
        y1y2 == FqMul(self.y, other.y)
        dx1x2y1y2 == FqMul(FqMul(d, x1x2), y1y2)
        x3_num == FqAdd(x1y2, y1x2)
        x3_den == FqAdd(1, dx1x2y1y2)
        y3_num == FqAdd(y1y2, FqMul(a, x1x2))
        y3_den == FqSub(1, dx1x2y1y2)
    IN  IF FqInverse(x3_den) = None \/ FqInverse(y3_den) = None
        THEN DegenerateAddition
        ELSE [x |-> FqMul(x3_num, FqInverse(x3_den)),
              y |-> FqMul(y3_num, FqInverse(y3_den))]

add(self, other) ==
    IF self = DegenerateAddition \/ other = DegenerateAddition
    THEN DegenerateAddition
    ELSE
    LET a == A_COEFF % P
        d == D_COEFF % P
        x1y2 == FqMul(self.x, other.y)
        y1x2 == FqMul(self.y, other.x)
        x1x2 == FqMul(self.x, other.x)
        y1y2 == FqMul(self.y, other.y)
        dx1x2y1y2 == FqMul(FqMul(d, x1x2), y1y2)
        x3_num == FqAdd(x1y2, y1x2)
        x3_den == FqAdd(1, dx1x2y1y2)
        y3_num == FqSub(y1y2, FqMul(a, x1x2))
        y3_den == FqSub(1, dx1x2y1y2)
    IN  IF FqInverse(x3_den) = None \/ FqInverse(y3_den) = None
        THEN DegenerateAddition
        ELSE [x |-> FqMul(x3_num, FqInverse(x3_den)),
              y |-> FqMul(y3_num, FqInverse(y3_den))]

\* the loop "for bit in bits { if bit { result = result.add(&temp) } temp = temp.add(&temp) }"
RECURSIVE double_and_add(_, _, _, _)
double_and_add(bits, i, result, temp) ==
    IF i > Len(bits) THEN result
    ELSE double_and_add(bits, i + 1,
                        IF bits[i] THEN add(result, temp) ELSE result,
                        add(temp, temp))

\* the number of add calls that loop makes: one doubling per bit, and one
\* more addition for every bit that is set
RECURSIVE double_and_add_calls(_, _)
double_and_add_calls(bits, i) ==
    IF i > Len(bits) THEN 0
    ELSE (IF bits[i] THEN 1 ELSE 0) + 1 + double_and_add_calls(bits, i + 1)

scalar_mul(self, scalar) == double_and_add(to_bits_le(scalar), 1, identity, self)

mul_by_bn254_scalar(self, scalar) ==
    double_and_add(bn254_to_bits_le(scalar), 1, identity, self)

\* ------------------------------------------------------------------------
\* hash.rs: the external hashes are deterministic stand-ins
\* ------------------------------------------------------------------------
\* Sha256::digest output length in bytes (32 in the source)
Sha256Len == 2

\* Sha512 output length in bytes (64 in the source)
Sha512Len == 3

RECURSIVE sha_absorb(_, _, _)
sha_absorb(bytes, h, width) ==
    IF bytes = <<>> THEN h
    ELSE sha_absorb(Tail(bytes), (h * 31 + Head(bytes) + 7) % width, width)

fixed_bytes_le(v, len) == [i \in 1 .. len |-> (v \div Pow(256, i - 1)) % 256]

Sha256(message) ==
    fixed_bytes_le(sha_absorb(message, 40503, Pow(256, Sha256Len)), Sha256Len)

Sha512(message) ==
    fixed_bytes_le(sha_absorb(message, 9176531, Pow(256, Sha512Len)), Sha512Len)

\* Poseidon::new_circom(4).hash: a sponge over Fq with the x^5 S-box
Poseidon4(inputs) ==
    LET r1 == FqPow(FqAdd(inputs[1], 11), 5)
        r2 == FqPow(FqAdd(FqAdd(r1, inputs[2]), 23), 5)
        r3 == FqPow(FqAdd(FqAdd(r2, inputs[3]), 37), 5)
        r4 == FqPow(FqAdd(FqAdd(r3, inputs[4]), 53), 5)
    IN  FqPow(FqAdd(FqMul(r4, 3), r1), 5)

schnorr_challenge(r_x, pk_x, pk_y, message_hash) ==
    Poseidon4(<<r_x, pk_x, pk_y, message_hash>>)

hash_message_to_field(message) == from_le_bytes_mod_order(Sha256(message), P)

\* ------------------------------------------------------------------------
\* keypair.rs
\* ------------------------------------------------------------------------
\* slip: the public key computed from identity() instead of generator()
from_private_key_identity_base(sk) ==
    [sk |-> sk, pk |-> [point |-> scalar_mul(identity, sk)]]

from_private_key(sk) == [sk |-> sk, pk |-> [point |-> scalar_mul(generator, sk)]]

\* ------------------------------------------------------------------------
\* sign.rs
\* ------------------------------------------------------------------------
\* slip: the nonce also mixes in the state of the entropy source
nonce_from_rng(sk, message) ==
    (from_le_bytes_mod_order(Sha512(to_bytes_le(sk) \o message), N) + draws) % N

deterministic_nonce(sk, message) ==
    from_le_bytes_mod_order(Sha512(to_bytes_le(sk) \o message), N)

\* slip: the challenge stored after its reduction mod n
sign_with_nonce_reduced_e(keypair, message, k) ==
    LET r == scalar_mul(generator, k)
        msg_hash == hash_message_to_field(message)
        e == schnorr_challenge(r.x, keypair.pk.point.x, keypair.pk.point.y, msg_hash)
        e_n == bn254_to_bjj_scalar(e)
        s == FrSub(k, FrMul(e_n, keypair.sk))
    IN  IF r = DegenerateAddition
        THEN [s |-> None, e |-> None, r |-> DegenerateAddition]
        ELSE [s |-> s, e |-> e_n, r |-> r]

sign_with_nonce(keypair, message, k) ==
    LET r == scalar_mul(generator, k)
        msg_hash == hash_message_to_field(message)
        e == schnorr_challenge(r.x, keypair.pk.point.x, keypair.pk.point.y, msg_hash)
        e_n == bn254_to_bjj_scalar(e)
        s == FrSub(k, FrMul(e_n, keypair.sk))
    IN  IF r = DegenerateAddition
        THEN [s |-> None, e |-> None, r |-> DegenerateAddition]
        ELSE [s |-> s, e |-> e, r |-> r]

sign(keypair, message) ==
    sign_with_nonce(keypair, message, deterministic_nonce(keypair.sk, message))

\* ------------------------------------------------------------------------
\* verify.rs
\* ------------------------------------------------------------------------
\* slip: a mismatch raised as a failure (assert_eq!) instead of returned
verify_asserting(sig, message, pk) ==
    LET s_g == scalar_mul(generator, sig.s)
        e_pk == mul_by_bn254_scalar(pk.point, sig.e)
        r_prime == add(s_g, e_pk)
        msg_hash == hash_message_to_field(message)
        e_check == schnorr_challenge(r_prime.x, pk.point.x, pk.point.y, msg_hash)
    IN  IF r_prime = DegenerateAddition THEN "Panic"
        ELSE IF e_check = sig.e THEN "Valid"
        ELSE "Panic"

\* slip: the stored commitment r compared with the recomputed one
verify_checking_r(sig, message, pk) ==
    LET s_g == scalar_mul(generator, sig.s)
        e_pk == mul_by_bn254_scalar(pk.point, sig.e)
        r_prime == add(s_g, e_pk)
        msg_hash == hash_message_to_field(message)
        e_check == schnorr_challenge(r_prime.x, pk.point.x, pk.point.y, msg_hash)
    IN  IF r_prime = DegenerateAddition THEN "Panic"
        ELSE IF e_check = sig.e /\ r_prime = sig.r THEN "Valid"
        ELSE "Invalid"

verify(sig, message, pk) ==
    LET s_g == scalar_mul(generator, sig.s)
        e_pk == mul_by_bn254_scalar(pk.point, sig.e)
        r_prime == add(s_g, e_pk)
        msg_hash == hash_message_to_field(message)
        e_check == schnorr_challenge(r_prime.x, pk.point.x, pk.point.y, msg_hash)
    IN  IF r_prime = DegenerateAddition THEN "Panic"
        ELSE IF e_check = sig.e THEN "Valid"
        ELSE "Invalid"

\* ------------------------------------------------------------------------
\* Bounds on the inputs
\* ------------------------------------------------------------------------
\* messages are byte strings of at most MaxMsgLen bytes ...
MaxMsgLen == 1

\* ... over the byte values 0..MaxByte
MaxByte == 1

Messages == UNION {[1 .. len -> 0 .. MaxByte] : len \in 0 .. MaxMsgLen}

\* every point (x, y) over Fq that satisfies the curve equation
CurvePoints ==
    UNION {{[x |-> px, y |-> py] :
               py \in {v \in Fq : is_on_curve([x |-> px, y |-> v])}} : px \in Fq}

\* the points k*G: the subgroup every public key lies in
Subgroup == {scalar_mul(generator, k) : k \in Fr}

\* values a caller may write into the public field Signature.r
CorruptPoints == {identity, generator, add(generator, generator), [x |-> 1, y |-> 1]}

NoPoint == [x |-> None, y |-> None]

NoKey == [sk |-> None, pk |-> [point |-> NoPoint]]

NoSig == [s |-> None, e |-> None, r |-> NoPoint]

NoOut == [op |-> "none"]

\* ------------------------------------------------------------------------
\* The signing protocol: keypair, sign, verify
\* ------------------------------------------------------------------------
Init ==
    /\ pc = "start"
    /\ msg \in Messages
    /\ draws = 0
    /\ origin = "none"
    /\ kp = NoKey
    /\ kp2 = NoKey
    /\ sig1 = NoSig
    /\ tampered = "none"
    /\ sig2 = NoSig
    /\ outcome = "none"
    /\ pt1 = NoPoint
    /\ out = NoOut

\* KeyPair::generate(): sk = BjjScalar::random(OsRng), uniform over Fr
Generate ==
    /\ pc = "start"
    /\ \E sk \in Fr : kp' = from_private_key(sk)
    /\ draws' = draws + 1
    /\ origin' = "generate"
    /\ pc' = "keyed"
    /\ UNCHANGED <<msg, kp2, sig1, tampered, sig2, outcome, pt1, out>>

\* KeyPair::from_private_key(sk) for a caller-supplied scalar
FromPrivateKey ==
    /\ pc = "start"
    /\ \E sk \in Fr : kp' = from_private_key(sk)
    /\ origin' = "from_private_key"
    /\ pc' = "keyed"
    /\ UNCHANGED <<msg, draws, kp2, sig1, tampered, sig2, outcome, pt1, out>>

\* Signature::sign(&kp, msg)
Sign ==
    /\ pc = "keyed"
    /\ sig1' = sign(kp, msg)
    /\ pc' = "signed"
    /\ UNCHANGED <<msg, draws, origin, kp, kp2, tampered, sig2, outcome, pt1, out>>

\* the caller overwrites the public field r of the signature
CorruptR ==
    /\ pc = "signed"
    /\ tampered = "none"
    /\ \E pt \in CorruptPoints \ {sig1.r} : sig1' = [sig1 EXCEPT !.r = pt]
    /\ tampered' = "r"
    /\ UNCHANGED <<pc, msg, draws, origin, kp, kp2, sig2, outcome, pt1, out>>

\* verify(&sig, msg, &kp.pk)
Verify ==
    /\ pc = "signed"
    /\ outcome' = verify(sig1, msg, kp.pk)
    /\ pc' = "verified"
    /\ UNCHANGED <<msg, draws, origin, kp, kp2, sig1, tampered, sig2, pt1, out>>

\* a second, unrelated KeyPair::generate() between two sign calls
GenerateOther ==
    /\ pc = "signed"
    /\ tampered = "none"
    /\ \E sk \in Fr : kp2' = from_private_key(sk)
    /\ draws' = draws + 1
    /\ pc' = "rekeyed"
    /\ UNCHANGED <<msg, origin, kp, sig1, tampered, sig2, outcome, pt1, out>>

\* Signature::sign(&kp, msg) called a second time with the same arguments
SignAgain ==
    /\ pc \in {"signed", "rekeyed"}
    /\ tampered = "none"
    /\ sig2' = sign(kp, msg)
    /\ pc' = "resigned"
    /\ UNCHANGED <<msg, draws, origin, kp, kp2, sig1, tampered, outcome, pt1, out>>

Next ==
    \/ Generate
    \/ FromPrivateKey
    \/ Sign
    \/ CorruptR
    \/ Verify
    \/ GenerateOther
    \/ SignAgain

Spec == Init /\ [][Next]_vars

\* ------------------------------------------------------------------------
\* verify on caller-built values: Signature and PublicKey have public
\* fields, so any scalar, field element and coordinate pair can be passed
\* ------------------------------------------------------------------------
\* response scalars tried: 0 .. MaxS
MaxS == 1

\* challenges tried: the MaxE + 1 smallest and the MaxE + 1 largest of Fq
MaxE == 5

\* off-curve public keys tried: x in 1 .. MaxOffX, any y
MaxOffX == 1

LooseChallenges == (0 .. MaxE) \cup ((P - 1 - MaxE) .. (P - 1))

LoosePoints == CurvePoints \cup [x : 1 .. MaxOffX, y : Fq]

InitVerify ==
    /\ pc = "built"
    /\ msg \in Messages
    /\ draws = 0
    /\ origin = "none"
    /\ kp \in [sk : {None}, pk : [point : LoosePoints]]
    /\ kp2 = NoKey
    /\ sig1 \in [s : 0 .. MaxS, e : LooseChallenges, r : {identity}]
    /\ tampered = "none"
    /\ sig2 = NoSig
    /\ outcome = "none"
    /\ pt1 = NoPoint
    /\ out = NoOut

\* verify(&sig, msg, &pk) on the caller-built values
VerifyBuilt ==
    /\ pc = "built"
    /\ outcome' = verify(sig1, msg, kp.pk)
    /\ pc' = "verified_built"
    /\ UNCHANGED <<msg, draws, origin, kp, kp2, sig1, tampered, sig2, pt1, out>>

NextVerify == VerifyBuilt

SpecVerify == InitVerify /\ [][NextVerify]_vars

\* ------------------------------------------------------------------------
\* Curve arithmetic on its own (the operations the tests of curve.rs call)
\* ------------------------------------------------------------------------
InitCurve ==
    /\ pc = "curve"
    /\ msg = <<>>
    /\ draws = 0
    /\ origin = "none"
    /\ kp = NoKey
    /\ kp2 = NoKey
    /\ sig1 = NoSig
    /\ tampered = "none"
    /\ sig2 = NoSig
    /\ outcome = "none"
    /\ pt1 \in CurvePoints
    /\ out = NoOut

\* pt1.add(&q)
CurveAdd ==
    /\ pc = "curve" /\ out = NoOut
    /\ \E q \in CurvePoints :
           out' = [op |-> "add", q |-> q, res |-> add(pt1, q),
                   dens |-> add_denominators(pt1, q)]
    /\ UNCHANGED <<protoVars, pt1>>

\* pt1.scalar_mul(&k)
CurveScalarMul ==
    /\ pc = "curve" /\ out = NoOut
    /\ \E k \in Fr :
           out' = [op |-> "scalar_mul", k |-> k, res |-> scalar_mul(pt1, k),
                   bits |-> to_bits_le(k),
                   adds |-> double_and_add_calls(to_bits_le(k), 1)]
    /\ UNCHANGED <<protoVars, pt1>>

\* pt1.mul_by_bn254_scalar(&e), and the reduced route of bn254_scalar_mul_matches
CurveMulBn254 ==
    /\ pc = "curve" /\ out = NoOut
    /\ \E e \in LooseChallenges :
           out' = [op |-> "mul_by_bn254_scalar", e |-> e,
                   res |-> mul_by_bn254_scalar(pt1, e),
                   reduced |-> scalar_mul(pt1, bn254_to_bjj_scalar(e)),
                   adds |-> double_and_add_calls(bn254_to_bits_le(e), 1)]
    /\ UNCHANGED <<protoVars, pt1>>

\* the computation of the test bn254_scalar_mul_matches, for any point of the
\* subgroup generated by G and any field element
Bn254ScalarMulMatches ==
    /\ pc = "curve" /\ out = NoOut
    /\ pt1 \in Subgroup
    /\ \E val_bn254 \in Fq :
           LET val_bjj == bn254_to_bjj_scalar(val_bn254)
           IN  out' = [op |-> "bn254_scalar_mul_matches", e |-> val_bn254,
                       bits |-> bn254_to_bits_le(val_bn254),
                       val_bjj |-> val_bjj,
                       result_bn254 |-> mul_by_bn254_scalar(pt1, val_bn254),
                       result_bjj |-> scalar_mul(pt1, val_bjj)]
    /\ UNCHANGED <<protoVars, pt1>>

\* the computation of the test scalar_mul_associative, for any a and b
ScalarMulAssociative ==
    /\ pc = "curve" /\ out = NoOut
    /\ pt1 = generator
    /\ \E a \in Fr, b \in Fr :
           LET ag == scalar_mul(generator, a)
               bg == scalar_mul(generator, b)
               ab == FrAdd(a, b)
           IN  out' = [op |-> "associative", a |-> a, b |-> b, ag |-> ag, bg |-> bg,
                       sum_points |-> add(ag, bg),
                       sum_scalar |-> scalar_mul(generator, ab)]
    /\ UNCHANGED <<protoVars, pt1>>

\* the computation of the test subgroup_order
SubgroupOrder ==
    /\ pc = "curve" /\ out = NoOut
    /\ pt1 = generator
    /\ LET n == field_from_dec_str(BJJ_ORDER, N)
       IN  out' = [op |-> "subgroup_order", n |-> n, res |-> scalar_mul(generator, n)]
    /\ UNCHANGED <<protoVars, pt1>>

\* KeyPair::from_private_key(sk) followed by Signature::sign(&kp, m)
DeriveAndSign ==
    /\ pc = "curve" /\ out = NoOut
    /\ pt1 = generator
    /\ \E sk \in Fr, m \in Messages :
           LET k == from_private_key(sk)
           IN  out' = [op |-> "sign", kp |-> k, m |-> m, sig |-> sign(k, m)]
    /\ UNCHANGED <<protoVars, pt1>>

NextCurve ==
    \/ CurveAdd
    \/ CurveScalarMul
    \/ CurveMulBn254
    \/ Bn254ScalarMulMatches
    \/ ScalarMulAssociative
    \/ SubgroupOrder
    \/ DeriveAndSign

SpecCurve == InitCurve /\ [][NextCurve]_vars

\* ------------------------------------------------------------------------
\* Properties
\* ------------------------------------------------------------------------
\* C1: a signature made by sign for a keypair from generate or
\* from_private_key (any sk in Fr, any message, the empty one included)
\* verifies as Valid under that keypair's public key.
RoundTrip ==
    (pc = "verified" /\ tampered = "none") => outcome = "Valid"

RoundTripWitness ==
    /\ pc = "verified" /\ tampered = "none" /\ outcome = "Valid"
    /\ origin = "generate" /\ msg = <<>>
    /\ sig1.e >= Pow(2, ScalarBits)
    /\ sig1.s > deterministic_nonce(kp.sk, msg)

\* C2 as stated: for every Signature, message and PublicKey value verify
\* returns Valid or Invalid and never aborts.
VerifyNeverAborts ==
    pc = "verified_built" => outcome \in {"Valid", "Invalid"}

\* C2 amended: when the public key's point satisfies the curve equation,
\* verify returns Valid or Invalid, whatever the signature and the message.
VerifyTotalOnCurve ==
    (pc = "verified_built" /\ is_on_curve(kp.pk.point))
        => outcome \in {"Valid", "Invalid"}

VerifyTotalOnCurveWitness ==
    /\ pc = "verified_built" /\ is_on_curve(kp.pk.point)
    /\ ~is_zero(kp.pk.point)
    /\ sig1.e = P - 1 /\ sig1.s = 1
    /\ outcome = "Invalid"

CorruptedRInvalid ==
    (pc = "verified" /\ tampered = "r") => outcome = "Invalid"

\* C6 amended: verify does not read r; a valid signature whose r was
\* replaced by another point still verifies as Valid.
CorruptedRIgnored ==
    (pc = "verified" /\ tampered = "r") => outcome = "Valid"

CorruptedRIgnoredWitness ==
    /\ pc = "verified" /\ tampered = "r" /\ outcome = "Valid"
    /\ ~is_on_curve(sig1.r)
    /\ kp.sk # 0

ScalarMulAdditive ==
    out.op = "associative" => out.sum_points = out.sum_scalar

ScalarMulAdditiveWitness ==
    /\ out.op = "associative"
    /\ out.a = out.b /\ out.a + out.b > N
    /\ out.sum_points = out.sum_scalar
    /\ ~is_zero(out.sum_points)

\* C9: G multiplied by the scalar built from BJJ_ORDER is the identity.
SubgroupOrderIdentity ==
    out.op = "subgroup_order" => is_zero(out.res)

SubgroupOrderIdentityWitness ==
    /\ out.op = "subgroup_order" /\ pt1 = generator
    /\ out.res = identity

\* C10: generator(), identity(), the sum of two points on the curve, every
\* scalar multiple of a point on the curve, every derived public key and
\* every signature's r satisfy the curve equation.
OnCurveInvariant ==
    /\ is_on_curve(generator)
    /\ is_on_curve(identity)
    /\ out.op \in {"add", "scalar_mul", "mul_by_bn254_scalar"} => is_on_curve(out.res)
    /\ out.op = "sign" => (is_on_curve(out.kp.pk.point) /\ is_on_curve(out.sig.r))

OnCurveInvariantWitness ==
    /\ out.op = "mul_by_bn254_scalar"
    /\ scalar_mul(pt1, 1) = pt1 /\ ~is_zero(mul_by_bn254_scalar(pt1, N))
    /\ out.e = P - 1
    /\ is_on_curve(out.res) /\ ~is_zero(out.res)

\* C11: one scalar multiplication executes the same number of point
\* additions for every scalar value (scalar_mul over the bits of a scalar,
\* mul_by_bn254_scalar over the bits of a challenge).
FixedAdditionCount ==
    /\ out.op = "scalar_mul" => out.adds = double_and_add_calls(to_bits_le(0), 1)
    /\ out.op = "mul_by_bn254_scalar" =>
           out.adds = double_and_add_calls(bn254_to_bits_le(0), 1)

\* C13: for every point of the subgroup generated by G and every field
\* element e, multiplying by the 254-bit sequence of e gives the same point
\* as multiplying by e reduced mod n.
UnreducedMatchesReduced ==
    out.op = "bn254_scalar_mul_matches" =>
        /\ out.result_bn254 = out.result_bjj
        /\ out.val_bjj = out.e % N

UnreducedMatchesReducedWitness ==
    /\ out.op = "bn254_scalar_mul_matches"
    /\ pt1 # identity /\ pt1 # generator
    /\ out.e >= Pow(2, ScalarBits) /\ out.val_bjj # 0
    /\ out.result_bn254 = out.result_bjj

\* C14: adding two points that satisfy the curve equation never meets a
\* zero denominator, so add and every scalar multiplication, key
\* derivation and signing built on it complete without the abort.
NoDegenerateAddition ==
    /\ out.op = "add" =>
           (out.dens[1] # 0 /\ out.dens[2] # 0 /\ out.res # DegenerateAddition)
    /\ out.op \in {"scalar_mul", "mul_by_bn254_scalar"} => out.res # DegenerateAddition
    /\ out.op = "sign" =>
           (out.kp.pk.point # DegenerateAddition /\ out.sig.r # DegenerateAddition)

NoDegenerateAdditionWitness ==
    /\ out.op = "add"
    /\ out.q = [x |-> FqSub(0, pt1.x), y |-> pt1.y]
    /\ ~is_zero(pt1) /\ pt1.x # 0 /\ pt1.y # 0
    /\ out.dens[1] # 0 /\ out.dens[2] # 0
    /\ out.res = identity

\* C15: to_bits_le returns exactly ScalarBits bits for every scalar and
\* bn254_to_bits_le exactly FieldBits bits for every field element; bit i is
\* the coefficient of 2^i and no set bit is cut off.
BitSequences ==
    /\ out.op = "scalar_mul" =>
           /\ Len(out.bits) = ScalarBits
           /\ out.k < Pow(2, Len(out.bits))
           /\ \A i \in 1 .. Len(out.bits) :
                  out.bits[i] = ((out.k \div Pow(2, i - 1)) % 2 = 1)
    /\ out.op = "bn254_scalar_mul_matches" =>
           /\ Len(out.bits) = FieldBits
           /\ out.e < Pow(2, Len(out.bits))
           /\ \A i \in 1 .. Len(out.bits) :
                  out.bits[i] = ((out.e \div Pow(2, i - 1)) % 2 = 1)

BitSequencesWitness ==
    /\ out.op = "bn254_scalar_mul_matches"
    /\ out.e = P - 1
    /\ Len(out.bits) = FieldBits /\ out.bits[FieldBits]

\* C16: sign returns r = k*G for the derived nonce k, e the raw challenge
\* Poseidon(r.x, pk.x, pk.y, digest) in [0, p), not reduced mod n, and s in
\* [0, n) with (s + (e mod n)*sk) mod n = k, also when the subtraction wraps.
SignatureContents ==
    (pc = "signed" /\ tampered = "none") =>
        LET k == deterministic_nonce(kp.sk, msg)
        IN  /\ sig1.r = scalar_mul(generator, k)
            /\ sig1.e \in Fq
            /\ sig1.e = schnorr_challenge(sig1.r.x, kp.pk.point.x, kp.pk.point.y,
                                          hash_message_to_field(msg))
            /\ sig1.s \in Fr
            /\ (sig1.s + (sig1.e % N) * kp.sk) % N = k

SignatureContentsWitness ==
    /\ pc = "signed" /\ tampered = "none"
    /\ sig1.e >= N
    /\ deterministic_nonce(kp.sk, msg) < ((sig1.e % N) * kp.sk) % N
    /\ (sig1.s + (sig1.e % N) * kp.sk) % N = deterministic_nonce(kp.sk, msg)
    /\ sig1.r = scalar_mul(generator, deterministic_nonce(kp.sk, msg))

====
